---- MODULE Spec2Model ----
(***************************************************************************)
(* A model of src/src/index.ts: PeerPort, the command/event adapter over   *)
(* the peer-to-peer capability (peerjs), with its handle registry          *)
(* (MapStorage), the dispatcher handleMsg, the five command handlers and   *)
(* the three lifecycle subscribers.                                        *)
(*                                                                         *)
(* One step of the model is one run-to-completion JavaScript job: either   *)
(* the subscribe mechanism invoking the registered callback with one       *)
(* command, or the capability invoking one of the callbacks the adapter    *)
(* attached.  Each step records what it did in op, sent, requests, fault.  *)
(***************************************************************************)
EXTENDS Integers, Sequences, FiniteSets, TLC

\* Bound of the model: the Peer objects created plus the handles generated.
MaxObjects == 3

VARIABLES
    storage,    \* PeerPort.#storage: the MapStorage map, key -> value
    peers,      \* the Peer objects created so far, with their subscriber closure
    conns,      \* the DataConnection objects a subscriber is attached to
    calls,      \* the MediaConnection objects a subscriber is attached to
    streams,    \* number of MediaStream objects received so far
    nextId,     \* number of nanoid() calls so far
    receiver,   \* what `this` is when the subscribe mechanism calls handleMsg
    op,         \* the job the last step ran
    sent,       \* the events the last step passed to #send, in order
    requests,   \* the requests the last step made to the capability, in order
    fault       \* the exception that escaped the last step, or NoFault

vars == <<storage, peers, conns, calls, streams, nextId, receiver, op, sent, requests, fault>>

----------------------------------------------------------------------------
\* JavaScript values.  A value is a record [cls, ref]: cls is the class of an
\* object or the type of a primitive, ref tells objects of one class apart.

Val(cls, ref) == [cls |-> cls, ref |-> ref]
Undefined == Val("undefined", 0)
Null == Val("null", 0)

PeerObj(p) == Val("Peer", p)
ConnObj(c) == Val("DataConnection", c)
CallObj(m) == Val("MediaConnection", m)
StreamObj(s) == Val("MediaStream", s)

\* v instanceof C
InstanceOf(v, C) == v.cls = C

\* typeof v
TypeOf(v) ==
    IF v.cls \in {"string", "number", "boolean", "undefined"} THEN v.cls
    ELSE "object"

\* Handles and identifiers are strings.  Where the code holds undefined or
\* null in the place of an identifier (an unset closure variable, an absent
\* optional field, a cleared peer.id) the model holds one of these two.
UndefinedId == "<undefined>"
NullId == "<null>"
PeerIDs == {"abc"}
RemoteIDs == {"xyz"}
Err == "err"

\* nanoid(): the n-th call returns a string no earlier call returned.
nanoid(n) == "id" \o ToString(n)

----------------------------------------------------------------------------
\* MapStorage

MapGet(map, id) == IF id \in DOMAIN map THEN map[id] ELSE Undefined

MapSet(map, id, data) ==
    [k \in (DOMAIN map) \cup {id} |-> IF k = id THEN data ELSE map[k]]

MapDelete(map, id) == [k \in (DOMAIN map) \ {id} |-> map[k]]

EmptyMap == [k \in {} |-> Undefined]

----------------------------------------------------------------------------
\* Command tags and method names.  A name is its first character and the
\* rest, so that handleMsg's conversion of a tag to a method name is computed.

Name(head, tail) == [head |-> head, tail |-> tail]

NewPeerTag == Name("N", "ewPeer")
ConnectToPeerTag == Name("C", "onnectToPeer")
CallPeerTag == Name("C", "allPeer")
ReconnectToServerTag == Name("R", "econnectToServer")
AnswerMediaConnectionTag == Name("A", "nswerMediaConnection")

\* String.prototype.toLowerCase on one character
toLowerCase(ch) ==
    CASE ch = "A" -> "a"
      [] ch = "C" -> "c"
      [] ch = "H" -> "h"
      [] ch = "N" -> "n"
      [] ch = "R" -> "r"
      [] ch = "S" -> "s"
      [] ch = "U" -> "u"
      [] OTHER -> ch

\* msg.type.charAt(0).toLowerCase() + msg.type.slice(1)
fname(type) == Name(toLowerCase(type.head), type.tail)

\* No method ran.
NoMethod == Name("", "")

\* The command handlers of PeerPort that a command tag can name.
Handlers == {
    Name("n", "ewPeer"),
    Name("c", "onnectToPeer"),
    Name("c", "allPeer"),
    Name("r", "econnectToServer"),
    Name("a", "nswerMediaConnection") }

\* Tags outside PeerCmd: one that names no property of the PeerPort, and the
\* four that name, after the conversion, a public method that is no command
\* handler.
OtherTags == {
    Name("U", "nknown"),
    Name("H", "andleMediaMsg"),
    Name("H", "andleDataMsg"),
    Name("S", "ubscribeToPeerEvents"),
    Name("H", "andleMsg") }

\* The handles a command may name: every key of the registry, the peer
\* identifiers, and a handle nothing is ever registered under.
Handles == (DOMAIN storage) \cup PeerIDs \cup {"s1"}

\* The commands the model delivers: the five of PeerCmd with their fields,
\* and the tags outside PeerCmd.

Commands ==
    [type : {NewPeerTag}, peerID : PeerIDs \cup {UndefinedId}]
    \cup [type : {ConnectToPeerTag}, local : Handles, remote : RemoteIDs]
    \cup [type : {CallPeerTag}, local : Handles, remote : RemoteIDs, streamID : Handles]
    \cup [type : {ReconnectToServerTag}, peerID : Handles]
    \cup [type : {AnswerMediaConnectionTag}, mediaConnectionID : Handles,
           streamID : Handles \cup {UndefinedId}]
    \cup [type : OtherTags]

\* The constructor hands the subscribe mechanism the function this.handleMsg,
\* detached from the PeerPort.  How the mechanism invokes it decides what
\* `this` is inside handleMsg: undefined when it calls it as a plain
\* function (class code is strict), the PeerPort only when the mechanism
\* supplies it as the receiver.
Receivers == {"PeerPort", "undefined"}

----------------------------------------------------------------------------
\* Events (PeerEvent)

PeerEv(type, peerID) == [type |-> type, peerID |-> peerID]
PeerErrorEv(peerID) == [type |-> "PeerError", peerID |-> peerID, err |-> Err]
DataEv(type, c) ==
    [type |-> type, dataID |-> c.dataID, local |-> c.local, remote |-> c.peer]
MediaEv(type, m) ==
    [type |-> type, mediaConnectionID |-> m.mediaConnectionID,
     local |-> m.local, remote |-> m.peer]

\* The outbound event tags declared by the PeerEvent union.
PeerEventTypes == {
    "PeerDoesNotExist", "PeerOpened", "PeerDisconnected", "PeerClosed",
    "PeerError", "DataOpened", "DataClosed", "DataError", "DataReceivedJSON",
    "DataReceivedBlob", "MediaStreamReceived", "MediaConnectionClosed",
    "MediaConnectionError", "MediaConnectionDoesNotExist", "StreamDoesNotExist" }

----------------------------------------------------------------------------
\* What a step leaves behind for the observer.

NoFault == "none"
Idle == [job |-> "idle"]

\* What a job that runs to completion leaves behind.
Job(o, ev, req, f) ==
    /\ op' = o
    /\ UNCHANGED receiver
    /\ sent' = ev
    /\ requests' = req
    /\ fault' = f

\* A job that ends by an exception escaping it, after sending ev.
Throw(o, ev, f) ==
    /\ Job(o, ev, <<>>, f)
    /\ UNCHANGED <<storage, peers, conns, calls, streams, nextId>>

\* JavaScript truthiness of an optional identifier
Truthy(id) == id \notin {UndefinedId, NullId, ""}

----------------------------------------------------------------------------
\* The private lookups.  Each returns what the caller needs: whether the
\* lookup returned, the value, and otherwise the event sent and the string
\* thrown.

Lookup(found, value, ev, thrown) ==
    [found |-> found, value |-> value, sent |-> ev, thrown |-> thrown]

getMediaConnection(mediaConnectionID) ==
    LET conn == MapGet(storage, mediaConnectionID) IN
    IF conn = Undefined \/ ~InstanceOf(conn, "MediaConnection")
    THEN Lookup(FALSE, Undefined,
                <<[type |-> "MediaConnectionDoesNotExist",
                   mediaConnectionID |-> mediaConnectionID]>>,
                "MediaConnectionDoesNotExist")
    ELSE Lookup(TRUE, conn, <<>>, NoFault)

\* getStream without the instanceof test: any registered value passes.
getStream_anyKind(streamID) ==
    LET stream == MapGet(storage, streamID) IN
    IF stream = Undefined
    THEN Lookup(FALSE, Undefined,
                <<[type |-> "StreamDoesNotExist", streamID |-> streamID]>>,
                "StreamDoesNotExist")
    ELSE Lookup(TRUE, stream, <<>>, NoFault)

getStream(streamID) ==
    LET stream == MapGet(storage, streamID) IN
    IF stream = Undefined \/ ~InstanceOf(stream, "MediaStream")
    THEN Lookup(FALSE, Undefined,
                <<[type |-> "StreamDoesNotExist", streamID |-> streamID]>>,
                "StreamDoesNotExist")
    ELSE Lookup(TRUE, stream, <<>>, NoFault)

\* getPeer that throws without sending the event first.
getPeer_silent(peerID) ==
    LET peer == MapGet(storage, peerID) IN
    IF peer = Undefined \/ ~InstanceOf(peer, "Peer")
    THEN Lookup(FALSE, Undefined, <<>>, "PeerDoesNotExist")
    ELSE Lookup(TRUE, peer, <<>>, NoFault)

getPeer(peerID) ==
    LET peer == MapGet(storage, peerID) IN
    IF peer = Undefined \/ ~InstanceOf(peer, "Peer")
    THEN Lookup(FALSE, Undefined,
                <<PeerEv("PeerDoesNotExist", peerID)>>, "PeerDoesNotExist")
    ELSE Lookup(TRUE, peer, <<>>, NoFault)

----------------------------------------------------------------------------
\* Attaching the subscribers.

\* subscribeToPeerEvents(peer): the closure variable peerID starts unset.
\* id is peer.id, which the capability sets: the requested identifier from
\* construction on, the assigned one from open on.
subscribeToPeerEvents(requested) ==
    peers' = Append(peers, [state |-> "connecting", id |-> requested,
                            peerID |-> UndefinedId])

\* handleDataMsg(local, conn): a fresh dataID, nothing stored yet.  conn.peer
\* is the remote party's identifier; initiator tells a channel this side
\* asked for (peer.connect) from one the remote party opened.
handleDataMsg(local, remote, initiator) ==
    /\ Len(peers) + nextId < MaxObjects
    /\ nextId' = nextId + 1
    /\ conns' = Append(conns, [state |-> "connecting", dataID |-> nanoid(nextId + 1),
                               local |-> local, peer |-> remote,
                               initiator |-> initiator])

\* handleMediaMsg without its storage.set: the handle is generated, not stored.
handleMediaMsg_notStored(local, remote, initiator) ==
    /\ Len(peers) + nextId < MaxObjects
    /\ nextId' = nextId + 1
    /\ calls' = Append(calls, [state |-> "ringing",
                               mediaConnectionID |-> nanoid(nextId + 1),
                               local |-> local, peer |-> remote,
                               initiator |-> initiator])
    /\ UNCHANGED storage

\* handleMediaMsg(local, conn): a fresh mediaConnectionID, stored at once.
handleMediaMsg(local, remote, initiator) ==
    /\ Len(peers) + nextId < MaxObjects
    /\ nextId' = nextId + 1
    /\ calls' = Append(calls, [state |-> "ringing",
                               mediaConnectionID |-> nanoid(nextId + 1),
                               local |-> local, peer |-> remote,
                               initiator |-> initiator])
    /\ storage' = MapSet(storage, nanoid(nextId + 1), CallObj(Len(calls) + 1))

----------------------------------------------------------------------------
\* The command handlers.  o is the job being run.

newPeer(data, o) ==
    /\ Len(peers) + nextId < MaxObjects
    /\ subscribeToPeerEvents(IF Truthy(data.peerID) THEN data.peerID ELSE UndefinedId)
    /\ Job(o, <<>>, <<[req |-> "create", peerID |-> data.peerID]>>, NoFault)
    /\ UNCHANGED <<storage, conns, calls, streams, nextId>>

connectToPeer(data, o) ==
    LET peer == getPeer(data.local) IN
    IF ~peer.found THEN Throw(o, peer.sent, peer.thrown)
    ELSE /\ handleDataMsg(data.local, data.remote, "local")
         /\ Job(o, <<>>, <<[req |-> "connect", peer |-> peer.value.ref,
                            remote |-> data.remote]>>, NoFault)
         /\ UNCHANGED <<storage, peers, calls, streams>>

callPeer(data, o) ==
    LET peer == getPeer(data.local) IN
    IF ~peer.found THEN Throw(o, peer.sent, peer.thrown)
    ELSE LET stream == getStream(data.streamID) IN
         IF ~stream.found THEN Throw(o, stream.sent, stream.thrown)
         ELSE /\ handleMediaMsg(data.local, data.remote, "local")
              /\ Job(o, <<>>, <<[req |-> "call", peer |-> peer.value.ref,
                                 remote |-> data.remote,
                                 stream |-> stream.value.ref]>>, NoFault)
              /\ UNCHANGED <<peers, conns, streams>>

\* peer.reconnect(): a disconnected session connects again under the
\* identifier it had; the capability restores peer.id.
reconnectToServer(data, o) ==
    LET peer == getPeer(data.peerID) IN
    IF ~peer.found THEN Throw(o, peer.sent, peer.thrown)
    ELSE LET p == peer.value.ref IN
         /\ peers' = IF peers[p].state = "disconnected"
                     THEN [peers EXCEPT ![p].state = "connecting",
                                        ![p].id = peers[p].peerID]
                     ELSE peers
         /\ Job(o, <<>>, <<[req |-> "reconnect", peer |-> p]>>, NoFault)
         /\ UNCHANGED <<storage, conns, calls, streams, nextId>>

\* answerMediaConnection looking the stream up before the media connection.
answerMediaConnection_streamFirst(data, o) ==
    IF Truthy(data.streamID) /\ ~getStream(data.streamID).found
    THEN Throw(o, getStream(data.streamID).sent, getStream(data.streamID).thrown)
    ELSE LET mediaConnection == getMediaConnection(data.mediaConnectionID) IN
         IF ~mediaConnection.found
         THEN Throw(o, mediaConnection.sent, mediaConnection.thrown)
         ELSE /\ Job(o, <<>>,
                     <<[req |-> "answer", call |-> mediaConnection.value.ref,
                        stream |-> IF Truthy(data.streamID)
                                   THEN getStream(data.streamID).value.ref ELSE 0]>>,
                     NoFault)
              /\ UNCHANGED <<storage, peers, conns, calls, streams, nextId>>

answerMediaConnection(data, o) ==
    LET mediaConnection == getMediaConnection(data.mediaConnectionID) IN
    IF ~mediaConnection.found
    THEN Throw(o, mediaConnection.sent, mediaConnection.thrown)
    ELSE IF Truthy(data.streamID)
    THEN LET stream == getStream(data.streamID) IN
         IF ~stream.found THEN Throw(o, stream.sent, stream.thrown)
         ELSE /\ Job(o, <<>>, <<[req |-> "answer", call |-> mediaConnection.value.ref,
                                 stream |-> stream.value.ref]>>, NoFault)
              /\ UNCHANGED <<storage, peers, conns, calls, streams, nextId>>
    ELSE /\ Job(o, <<>>, <<[req |-> "answer", call |-> mediaConnection.value.ref,
                            stream |-> 0]>>, NoFault)
         /\ UNCHANGED <<storage, peers, conns, calls, streams, nextId>>

----------------------------------------------------------------------------
\* The other public methods, as this[fname](msg) runs them: with the command
\* record as first argument and no second argument.

\* handleMediaMsg(msg): conn is undefined.  The handle is generated and
\* stored with undefined, then conn.on throws a TypeError.
handleMediaMsgOfCommand(o) ==
    /\ Len(peers) + nextId < MaxObjects
    /\ nextId' = nextId + 1
    /\ storage' = MapSet(storage, nanoid(nextId + 1), Undefined)
    /\ Job(o, <<>>, <<>>, "TypeError")
    /\ UNCHANGED <<peers, conns, calls, streams>>

\* handleDataMsg(msg): conn is undefined.  The handle is generated, then
\* conn.on throws a TypeError.
handleDataMsgOfCommand(o) ==
    /\ Len(peers) + nextId < MaxObjects
    /\ nextId' = nextId + 1
    /\ Job(o, <<>>, <<>>, "TypeError")
    /\ UNCHANGED <<storage, peers, conns, calls, streams>>

\* subscribeToPeerEvents(msg): msg.on is no function, a TypeError.
subscribeToPeerEventsOfCommand(o) == Throw(o, <<>>, "TypeError")

\* handleMsg(msg) again, with the same msg: the recursion ends in a
\* RangeError when the stack is exhausted.
handleMsgOfCommand(o) == Throw(o, <<>>, "RangeError")

----------------------------------------------------------------------------
\* The dispatcher.

\* this[fname](msg) with this the PeerPort.  The job records the method run.
Dispatch(method, msg) ==
    LET o == [job |-> "handleMsg", msg |-> msg, ran |-> method] IN
    CASE method = Name("n", "ewPeer") -> newPeer(msg, o)
      [] method = Name("c", "onnectToPeer") -> connectToPeer(msg, o)
      [] method = Name("c", "allPeer") -> callPeer(msg, o)
      [] method = Name("r", "econnectToServer") -> reconnectToServer(msg, o)
      [] method = Name("a", "nswerMediaConnection") -> answerMediaConnection(msg, o)
      [] method = Name("h", "andleMediaMsg") -> handleMediaMsgOfCommand(o)
      [] method = Name("h", "andleDataMsg") -> handleDataMsgOfCommand(o)
      [] method = Name("s", "ubscribeToPeerEvents") -> subscribeToPeerEventsOfCommand(o)
      [] method = Name("h", "andleMsg") -> handleMsgOfCommand(o)
      [] OTHER -> Throw([o EXCEPT !.ran = NoMethod], <<>>, "TypeError")

\* handleMsg(msg), invoked with `this` = receiver.  With this undefined the
\* property read this[fname] throws a TypeError; so does calling a property
\* that is no function.
handleMsg(msg) ==
    IF receiver # "PeerPort"
    THEN Throw([job |-> "handleMsg", msg |-> msg, ran |-> NoMethod], <<>>, "TypeError")
    ELSE Dispatch(fname(msg.type), msg)

\* The subscribe mechanism delivers one command to the callback the
\* constructor registered, subscribe(this.handleMsg).
Deliver ==
    /\ op = Idle
    /\ \E msg \in Commands : handleMsg(msg)

----------------------------------------------------------------------------
\* The callbacks of a Peer (subscribeToPeerEvents).  p is the Peer object.

Live(p) == peers[p].state \in {"connecting", "open", "disconnected"}

\* The open callback without its storage.set.
peerOpen_notStored(p, id) ==
    /\ op = Idle
    /\ peers[p].state = "connecting"
    /\ peers[p].id # UndefinedId => id = peers[p].id
    /\ \A q \in 1..Len(peers) : q # p /\ peers[q].state = "open" => peers[q].id # id
    /\ peers' = [peers EXCEPT ![p] = [state |-> "open", id |-> id, peerID |-> id]]
    /\ Job([job |-> "peer.open", peer |-> p, id |-> id],
           <<PeerEv("PeerOpened", id)>>, <<>>, NoFault)
    /\ UNCHANGED <<storage, conns, calls, streams, nextId>>

\* peer.on("open"): the capability confirms the session under id: the
\* identifier peer.id already names, else one it assigns.  No two sessions
\* are open under one identifier.
peerOpen(p, id) ==
    /\ op = Idle
    /\ peers[p].state = "connecting"
    /\ peers[p].id # UndefinedId => id = peers[p].id
    /\ \A q \in 1..Len(peers) : q # p /\ peers[q].state = "open" => peers[q].id # id
    /\ peers' = [peers EXCEPT ![p] = [state |-> "open", id |-> id, peerID |-> id]]
    /\ storage' = MapSet(storage, id, PeerObj(p))
    /\ Job([job |-> "peer.open", peer |-> p, id |-> id],
           <<PeerEv("PeerOpened", id)>>, <<>>, NoFault)
    /\ UNCHANGED <<conns, calls, streams, nextId>>

\* peer.on("close"): deletes under peer.id, reports the closure's peerID.
peerClose(p) ==
    /\ op = Idle
    /\ Live(p)
    /\ peers' = [peers EXCEPT ![p].state = "closed"]
    /\ storage' = MapDelete(storage, peers[p].id)
    /\ Job([job |-> "peer.close", peer |-> p],
           <<PeerEv("PeerClosed", peers[p].peerID)>>, <<>>, NoFault)
    /\ UNCHANGED <<conns, calls, streams, nextId>>

\* The disconnected callback cleaning the registry entry up.
peerDisconnected_cleanup(p) ==
    /\ op = Idle
    /\ peers[p].state = "open"
    /\ peers' = [peers EXCEPT ![p].state = "disconnected", ![p].id = NullId]
    /\ storage' = MapDelete(storage, peers[p].id)
    /\ Job([job |-> "peer.disconnected", peer |-> p],
           <<PeerEv("PeerDisconnected", peers[p].id)>>, <<>>, NoFault)
    /\ UNCHANGED <<conns, calls, streams, nextId>>

\* peer.on("disconnected"): the capability passes the identifier the session
\* had and clears peer.id (it keeps it aside for a reconnect).
peerDisconnected(p) ==
    /\ op = Idle
    /\ peers[p].state = "open"
    /\ peers' = [peers EXCEPT ![p].state = "disconnected", ![p].id = NullId]
    /\ Job([job |-> "peer.disconnected", peer |-> p],
           <<PeerEv("PeerDisconnected", peers[p].id)>>, <<>>, NoFault)
    /\ UNCHANGED <<storage, conns, calls, streams, nextId>>

\* peer.on("error")
peerError(p) ==
    /\ op = Idle
    /\ Live(p)
    /\ Job([job |-> "peer.error", peer |-> p],
           <<PeerErrorEv(peers[p].peerID)>>, <<>>, NoFault)
    /\ UNCHANGED <<storage, peers, conns, calls, streams, nextId>>

\* The connection callback storing the channel at once.
peerConnection_storedAtOnce(p, remote) ==
    /\ op = Idle
    /\ peers[p].state = "open"
    /\ handleDataMsg(peers[p].peerID, remote, "remote")
    /\ storage' = MapSet(storage, nanoid(nextId + 1), ConnObj(Len(conns) + 1))
    /\ Job([job |-> "peer.connection", peer |-> p], <<>>, <<>>, NoFault)
    /\ UNCHANGED <<peers, calls, streams>>

\* peer.on("connection"): a data channel the remote party opened
peerConnection(p, remote) ==
    /\ op = Idle
    /\ peers[p].state = "open"
    /\ handleDataMsg(peers[p].peerID, remote, "remote")
    /\ Job([job |-> "peer.connection", peer |-> p], <<>>, <<>>, NoFault)
    /\ UNCHANGED <<storage, peers, calls, streams>>

\* peer.on("call"): a media connection the remote party opened
peerCall(p, remote) ==
    /\ op = Idle
    /\ peers[p].state = "open"
    /\ handleMediaMsg(peers[p].peerID, remote, "remote")
    /\ Job([job |-> "peer.call", peer |-> p], <<>>, <<>>, NoFault)
    /\ UNCHANGED <<peers, conns, streams>>

----------------------------------------------------------------------------
\* The callbacks of a DataConnection (handleDataMsg).  c is the connection.

\* The payloads a data callback is given.  A wrapper's ref names what it wraps.
Wrapped == <<Val("string", 0), Val("ArrayBuffer", 0)>>

Payloads ==
    {Val(cls, 0) : cls \in {"string", "number", "boolean", "String", "Number",
                            "Boolean", "Object", "ArrayBuffer"}}
    \cup {Null, Undefined}
    \cup {Val(cls, i) : cls \in {"JsonData", "BlobData"}, i \in 1..Len(Wrapped)}

\* JsonData.data, BlobData.data
WrappedData(data) == Wrapped[data.ref]

\* BlobData.contentType
WrappedContentType(data) == TypeOf(WrappedData(data))

JSONEv(c, data) ==
    [type |-> "DataReceivedJSON", dataID |-> c.dataID, local |-> c.local,
     remote |-> c.peer, data |-> data]

BlobEv(c, blobID, contentType) ==
    [type |-> "DataReceivedBlob", dataID |-> c.dataID, blobID |-> blobID,
     local |-> c.local, remote |-> c.peer, contentType |-> contentType]

\* The open callback reporting the local identifier as the remote one.
dataOpen_localAsRemote(c) ==
    /\ op = Idle
    /\ conns[c].state = "connecting"
    /\ conns' = [conns EXCEPT ![c].state = "open"]
    /\ storage' = MapSet(storage, conns[c].dataID, ConnObj(c))
    /\ Job([job |-> "data.open", conn |-> c],
           <<[type |-> "DataOpened", dataID |-> conns[c].dataID,
              local |-> conns[c].local, remote |-> conns[c].local]>>, <<>>, NoFault)
    /\ UNCHANGED <<peers, calls, streams, nextId>>

\* conn.on("open")
dataOpen(c) ==
    /\ op = Idle
    /\ conns[c].state = "connecting"
    /\ conns' = [conns EXCEPT ![c].state = "open"]
    /\ storage' = MapSet(storage, conns[c].dataID, ConnObj(c))
    /\ Job([job |-> "data.open", conn |-> c],
           <<DataEv("DataOpened", conns[c])>>, <<>>, NoFault)
    /\ UNCHANGED <<peers, calls, streams, nextId>>

\* The close callback removing the channel's entry.
dataClose_deregisters(c) ==
    /\ op = Idle
    /\ conns[c].state \in {"connecting", "open"}
    /\ conns' = [conns EXCEPT ![c].state = "closed"]
    /\ storage' = MapDelete(storage, conns[c].dataID)
    /\ Job([job |-> "data.close", conn |-> c],
           <<DataEv("DataClosed", conns[c])>>, <<>>, NoFault)
    /\ UNCHANGED <<peers, calls, streams, nextId>>

\* conn.on("close")
dataClose(c) ==
    /\ op = Idle
    /\ conns[c].state \in {"connecting", "open"}
    /\ conns' = [conns EXCEPT ![c].state = "closed"]
    /\ Job([job |-> "data.close", conn |-> c],
           <<DataEv("DataClosed", conns[c])>>, <<>>, NoFault)
    /\ UNCHANGED <<storage, peers, calls, streams, nextId>>

\* conn.on("error")
dataError(c) ==
    /\ op = Idle
    /\ conns[c].state \in {"connecting", "open"}
    /\ Job([job |-> "data.error", conn |-> c],
           <<DataEv("DataError", conns[c]) @@ [err |-> Err]>>, <<>>, NoFault)
    /\ UNCHANGED <<storage, peers, conns, calls, streams, nextId>>

\* Storing a payload under a fresh blobID and announcing it.
StoreBlob(o, c, stored, contentType) ==
    /\ Len(peers) + nextId < MaxObjects
    /\ nextId' = nextId + 1
    /\ storage' = MapSet(storage, nanoid(nextId + 1), stored)
    /\ Job(o, <<BlobEv(conns[c], nanoid(nextId + 1), contentType)>>, <<>>, NoFault)
    /\ UNCHANGED <<peers, conns, calls, streams>>

\* Sending a payload inline.
SendJSON(o, c, data) ==
    /\ Job(o, <<JSONEv(conns[c], data)>>, <<>>, NoFault)
    /\ UNCHANGED <<storage, peers, conns, calls, streams, nextId>>

\* The instanceof chain without its final else: a payload of none of the
\* five classes is dropped.
dataData_noElse(c, data) ==
    LET o == [job |-> "data.data", conn |-> c, data |-> data] IN
    /\ op = Idle
    /\ conns[c].state = "open"
    /\ IF InstanceOf(data, "BlobData")
       THEN StoreBlob(o, c, WrappedData(data), WrappedContentType(data))
       ELSE IF InstanceOf(data, "JsonData") THEN SendJSON(o, c, WrappedData(data))
       ELSE IF InstanceOf(data, "String") THEN SendJSON(o, c, data)
       ELSE IF InstanceOf(data, "Number") THEN SendJSON(o, c, data)
       ELSE IF InstanceOf(data, "Boolean") THEN SendJSON(o, c, data)
       ELSE /\ Job(o, <<>>, <<>>, NoFault)
            /\ UNCHANGED <<storage, peers, conns, calls, streams, nextId>>

\* conn.on("data"): the instanceof chain
dataData(c, data) ==
    LET o == [job |-> "data.data", conn |-> c, data |-> data] IN
    /\ op = Idle
    /\ conns[c].state = "open"
    /\ IF InstanceOf(data, "BlobData")
       THEN StoreBlob(o, c, WrappedData(data), WrappedContentType(data))
       ELSE IF InstanceOf(data, "JsonData") THEN SendJSON(o, c, WrappedData(data))
       ELSE IF InstanceOf(data, "String") THEN SendJSON(o, c, data)
       ELSE IF InstanceOf(data, "Number") THEN SendJSON(o, c, data)
       ELSE IF InstanceOf(data, "Boolean") THEN SendJSON(o, c, data)
       ELSE StoreBlob(o, c, data, TypeOf(data))

----------------------------------------------------------------------------
\* The callbacks of a MediaConnection (handleMediaMsg).  m is the connection.

\* The stream callback announcing a handle it did not store.
mediaStream_notStored(m) ==
    /\ op = Idle
    /\ calls[m].state \in {"ringing", "active"}
    /\ Len(peers) + nextId < MaxObjects
    /\ nextId' = nextId + 1
    /\ streams' = streams + 1
    /\ calls' = [calls EXCEPT ![m].state = "active"]
    /\ Job([job |-> "media.stream", call |-> m],
           <<MediaEv("MediaStreamReceived", calls[m])
               @@ [streamID |-> nanoid(nextId + 1)]>>, <<>>, NoFault)
    /\ UNCHANGED <<storage, peers, conns>>

\* conn.on("stream")
mediaStream(m) ==
    /\ op = Idle
    /\ calls[m].state \in {"ringing", "active"}
    /\ Len(peers) + nextId < MaxObjects
    /\ nextId' = nextId + 1
    /\ streams' = streams + 1
    /\ calls' = [calls EXCEPT ![m].state = "active"]
    /\ storage' = MapSet(storage, nanoid(nextId + 1), StreamObj(streams + 1))
    /\ Job([job |-> "media.stream", call |-> m],
           <<MediaEv("MediaStreamReceived", calls[m])
               @@ [streamID |-> nanoid(nextId + 1)]>>, <<>>, NoFault)
    /\ UNCHANGED <<peers, conns>>

\* conn.on("close")
mediaClose(m) ==
    /\ op = Idle
    /\ calls[m].state \in {"ringing", "active"}
    /\ calls' = [calls EXCEPT ![m].state = "closed"]
    /\ Job([job |-> "media.close", call |-> m],
           <<MediaEv("MediaStreamClosed", calls[m])>>, <<>>, NoFault)
    /\ UNCHANGED <<storage, peers, conns, streams, nextId>>

\* conn.on("error")
mediaError(m) ==
    /\ op = Idle
    /\ calls[m].state \in {"ringing", "active"}
    /\ Job([job |-> "media.error", call |-> m],
           <<MediaEv("MediaStreamError", calls[m]) @@ [err |-> Err]>>, <<>>, NoFault)
    /\ UNCHANGED <<storage, peers, conns, calls, streams, nextId>>

----------------------------------------------------------------------------
\* The adapter after its constructor: an empty MapStorage, handleMsg
\* registered with the subscribe mechanism, nothing sent.

Init ==
    /\ storage = EmptyMap
    /\ peers = <<>>
    /\ conns = <<>>
    /\ calls = <<>>
    /\ streams = 0
    /\ nextId = 0
    /\ receiver \in Receivers
    /\ op = Idle
    /\ sent = <<>>
    /\ requests = <<>>
    /\ fault = NoFault

\* The job is over: the host has what it sent, the capability has its
\* requests, an escaped exception has been reported.  The event loop is idle.
EndOfJob ==
    /\ op # Idle
    /\ op' = Idle
    /\ sent' = <<>>
    /\ requests' = <<>>
    /\ fault' = NoFault
    /\ UNCHANGED <<storage, peers, conns, calls, streams, nextId, receiver>>

Next ==
    \/ Deliver
    \/ \E p \in 1..Len(peers), id \in PeerIDs : peerOpen(p, id)
    \/ \E p \in 1..Len(peers) : peerClose(p)
    \/ \E p \in 1..Len(peers) : peerDisconnected(p)
    \/ \E p \in 1..Len(peers) : peerError(p)
    \/ \E p \in 1..Len(peers), remote \in RemoteIDs : peerConnection(p, remote)
    \/ \E p \in 1..Len(peers), remote \in RemoteIDs : peerCall(p, remote)
    \/ \E c \in 1..Len(conns) : dataOpen(c)
    \/ \E c \in 1..Len(conns) : dataClose(c)
    \/ \E c \in 1..Len(conns) : dataError(c)
    \/ \E c \in 1..Len(conns), data \in Payloads : dataData(c, data)
    \/ \E m \in 1..Len(calls) : mediaStream(m)
    \/ \E m \in 1..Len(calls) : mediaClose(m)
    \/ \E m \in 1..Len(calls) : mediaError(m)
    \/ EndOfJob

Spec == Init /\ [][Next]_vars

----------------------------------------------------------------------------
\* Vocabulary of the properties.

CommandTags == {NewPeerTag, ConnectToPeerTag, CallPeerTag, ReconnectToServerTag,
                AnswerMediaConnectionTag}

\* The last step delivered a command and a method of the PeerPort ran on it.
Handled(o) == o.job = "handleMsg" /\ o.ran # NoMethod

HandledCmd(o, tag) == Handled(o) /\ o.msg.type = tag

\* The handles a command requires, in the order its handler looks them up,
\* each with the class the registered resource must have.
Need(h, cls) == [h |-> h, cls |-> cls]

Required(msg) ==
    CASE msg.type = ConnectToPeerTag -> <<Need(msg.local, "Peer")>>
      [] msg.type = CallPeerTag ->
            <<Need(msg.local, "Peer"), Need(msg.streamID, "MediaStream")>>
      [] msg.type = ReconnectToServerTag -> <<Need(msg.peerID, "Peer")>>
      [] msg.type = AnswerMediaConnectionTag ->
            IF msg.streamID = UndefinedId
            THEN <<Need(msg.mediaConnectionID, "MediaConnection")>>
            ELSE <<Need(msg.mediaConnectionID, "MediaConnection"),
                   Need(msg.streamID, "MediaStream")>>
      [] OTHER -> <<>>

Present(map, h) == h \in DOMAIN map
RegisteredAs(map, h, cls) == h \in DOMAIN map /\ map[h].cls = cls

\* The *DoesNotExist event of a failed lookup
DoesNotExistEv(need) ==
    CASE need.cls = "Peer" -> [type |-> "PeerDoesNotExist", peerID |-> need.h]
      [] need.cls = "MediaConnection" ->
            [type |-> "MediaConnectionDoesNotExist", mediaConnectionID |-> need.h]
      [] need.cls = "MediaStream" -> [type |-> "StreamDoesNotExist", streamID |-> need.h]

IsDoesNotExist(e) ==
    e.type \in {"PeerDoesNotExist", "MediaConnectionDoesNotExist", "StreamDoesNotExist"}

\* A *DoesNotExist event that carries the handle h
Carries(e, h) ==
    \/ e.type = "PeerDoesNotExist" /\ e.peerID = h
    \/ e.type = "MediaConnectionDoesNotExist" /\ e.mediaConnectionID = h
    \/ e.type = "StreamDoesNotExist" /\ e.streamID = h

\* The step changed no registry entry, no object, generated no handle and
\* made no request to the capability.
NoSideEffect ==
    /\ storage' = storage
    /\ nextId' = nextId
    /\ requests' = <<>>
    /\ peers' = peers /\ conns' = conns /\ calls' = calls /\ streams' = streams

----------------------------------------------------------------------------
\* C1 (as stated): for every command and every handle h it requires that is
\* not present in the registry, handling the command emits exactly one
\* *DoesNotExist event, that event carries h, and nothing else happens.
C1_EveryMissingHandleReported ==
    [][Handled(op') =>
        \A i \in DOMAIN Required(op'.msg) :
            ~Present(storage, Required(op'.msg)[i].h) =>
                /\ Len(sent') = 1
                /\ IsDoesNotExist(sent'[1])
                /\ Carries(sent'[1], Required(op'.msg)[i].h)
                /\ NoSideEffect]_vars

\* C1 (amended): for every command and the first handle h, in the order the
\* handler looks its handles up, that is not present in the registry (the
\* handles looked up before it being registered with the required class),
\* handling the command emits exactly the *DoesNotExist event of that lookup,
\* carrying h, and nothing else happens: no registry entry is added, changed
\* or removed, no handle is generated and no request is made.
C1_FirstMissingHandleReported ==
    [][Handled(op') =>
        \A i \in DOMAIN Required(op'.msg) :
            (/\ ~Present(storage, Required(op'.msg)[i].h)
             /\ \A j \in 1..(i - 1) :
                    RegisteredAs(storage, Required(op'.msg)[j].h, Required(op'.msg)[j].cls))
            => /\ sent' = <<DoesNotExistEv(Required(op'.msg)[i])>>
               /\ NoSideEffect]_vars

\* C1 witness: CallPeer on a registered peer session with an unregistered
\* stream handle reported StreamDoesNotExist.
C1_Witness ==
    /\ HandledCmd(op, CallPeerTag)
    /\ RegisteredAs(storage, op.msg.local, "Peer")
    /\ ~Present(storage, op.msg.streamID)
    /\ sent = <<[type |-> "StreamDoesNotExist", streamID |-> op.msg.streamID]>>
    /\ requests = <<>>

----------------------------------------------------------------------------
\* C2: a lookup failure never raises a fault that escapes handleMsg: after
\* the *DoesNotExist event is sent, handleMsg returns normally.
C2_LookupFailureDoesNotEscape ==
    (Handled(op) /\ Len(sent) = 1 /\ IsDoesNotExist(sent[1])) => fault = NoFault

----------------------------------------------------------------------------
\* C3: every command delivered through the subscribe mechanism whose tag is
\* one of the five command tags causes the handler matching that tag to run
\* on the PeerPort.
HandlerOf(tag) ==
    CASE tag = NewPeerTag -> Name("n", "ewPeer")
      [] tag = ConnectToPeerTag -> Name("c", "onnectToPeer")
      [] tag = CallPeerTag -> Name("c", "allPeer")
      [] tag = ReconnectToServerTag -> Name("r", "econnectToServer")
      [] tag = AnswerMediaConnectionTag -> Name("a", "nswerMediaConnection")

C3_DeliveredCommandRunsItsHandler ==
    (op.job = "handleMsg" /\ op.msg.type \in CommandTags)
        => op.ran = HandlerOf(op.msg.type)

----------------------------------------------------------------------------
\* C4 (as stated): after a NewPeer command no event is emitted until the
\* capability's open callback: a callback of a session that has not opened
\* yet (its subscriber's peerID is still unset) sends nothing.
PeerJobs == {"peer.open", "peer.close", "peer.disconnected", "peer.error",
             "peer.connection", "peer.call"}

C4_NoEventBeforeOpen ==
    (op.job \in PeerJobs /\ op.job # "peer.open"
        /\ peers[op.peer].peerID = UndefinedId) => sent = <<>>

\* C4 (amended): the NewPeer handler itself emits no event and registers
\* nothing, and PeerOpened is emitted by the open callback only (before it,
\* the session's error and close callbacks can emit PeerError and
\* PeerClosed); when the capability reports open with identifier id, the
\* session is stored under id and exactly one PeerOpened{peerID: id} is
\* emitted, so that a lookup of id then returns that session.
C4_PeerOpenedOnOpen ==
    /\ HandledCmd(op, NewPeerTag) => sent = <<>> /\ fault = NoFault
    /\ \A i \in DOMAIN sent : sent[i].type = "PeerOpened" => op.job = "peer.open"
    /\ op.job = "peer.open" =>
          /\ sent = <<[type |-> "PeerOpened", peerID |-> op.id]>>
          /\ MapGet(storage, op.id) = PeerObj(op.peer)
          /\ peers[op.peer].state = "open"

\* C4 witness: a session created without a requested identifier was opened
\* under "abc".
C4_Witness ==
    /\ op.job = "peer.open"
    /\ op.id = "abc"
    /\ sent = <<[type |-> "PeerOpened", peerID |-> "abc"]>>
    /\ MapGet(storage, "abc") = PeerObj(op.peer)

----------------------------------------------------------------------------
\* C5: when the capability reports close for a session that was opened under
\* id, the registry entry for id is removed and PeerClosed{peerID: id} is
\* emitted, whatever state the session was in, including disconnected.
C5_CloseRemovesEntry ==
    (op.job = "peer.close" /\ peers[op.peer].peerID # UndefinedId) =>
        /\ sent = <<[type |-> "PeerClosed", peerID |-> peers[op.peer].peerID]>>
        /\ MapGet(storage, peers[op.peer].peerID) # PeerObj(op.peer)

----------------------------------------------------------------------------
\* C6: for every ConnectToPeer{local, remote} whose local is a registered
\* peer session, exactly one fresh data handle is generated and exactly one
\* connect request is made; the channel's subscriber keeps that handle and
\* the command's local and remote, and when the capability delivers the
\* channel's open callback exactly one DataOpened{dataID, local, remote} is
\* emitted carrying them.
UsedHandles ==
    (DOMAIN storage)
    \cup {conns[c].dataID : c \in DOMAIN conns}
    \cup {calls[m].mediaConnectionID : m \in DOMAIN calls}

C6_ConnectThenDataOpened ==
    [][/\ (HandledCmd(op', ConnectToPeerTag)
             /\ RegisteredAs(storage, op'.msg.local, "Peer")) =>
            /\ nextId' = nextId + 1
            /\ Len(conns') = Len(conns) + 1
            /\ conns'[Len(conns')].dataID \notin UsedHandles
            /\ conns'[Len(conns')].local = op'.msg.local
            /\ conns'[Len(conns')].peer = op'.msg.remote
            /\ conns'[Len(conns')].initiator = "local"
            /\ requests' = <<[req |-> "connect", peer |-> storage[op'.msg.local].ref,
                              remote |-> op'.msg.remote]>>
            /\ sent' = <<>>
       /\ \A c \in DOMAIN conns :
            /\ conns'[c].dataID = conns[c].dataID
            /\ conns'[c].local = conns[c].local
            /\ conns'[c].peer = conns[c].peer
       /\ op'.job = "data.open" =>
            sent' = <<[type |-> "DataOpened", dataID |-> conns[op'.conn].dataID,
                       local |-> conns[op'.conn].local,
                       remote |-> conns[op'.conn].peer]>>]_vars

\* C6 witness: a channel asked for by ConnectToPeer{local: "abc", remote:
\* "xyz"} has opened.
C6_Witness ==
    /\ op.job = "data.open"
    /\ conns[op.conn].initiator = "local"
    /\ sent = <<[type |-> "DataOpened", dataID |-> conns[op.conn].dataID,
                 local |-> "abc", remote |-> "xyz"]>>

----------------------------------------------------------------------------
\* C7: payload classification is total and exclusive: for every payload the
\* data callback is given, exactly one event is emitted, and it is either
\* DataReceivedJSON or DataReceivedBlob.
C7_ExactlyOneDataEvent ==
    op.job = "data.data" =>
        /\ Len(sent) = 1
        /\ sent[1].type \in {"DataReceivedJSON", "DataReceivedBlob"}
        /\ sent[1].dataID = conns[op.conn].dataID

\* C7 witness: a payload of none of the classes the chain names (null) was
\* classified.
C7_Witness ==
    /\ op.job = "data.data"
    /\ op.data = Null
    /\ Len(sent) = 1
    /\ sent[1].type = "DataReceivedBlob"

----------------------------------------------------------------------------
\* C8: a JSON wrapper or a bare primitive string, number or boolean yields
\* DataReceivedJSON carrying the value inline, generates no blob handle and
\* leaves the registry unchanged; a binary wrapper or a value of no
\* structured kind (null, undefined, an object, a binary buffer) yields
\* DataReceivedBlob with a fresh blob handle registered to the payload.
\* (The boxed String, Number and Boolean objects are left to either side.)
InlineClasses == {"JsonData", "string", "number", "boolean"}
OpaqueClasses == {"BlobData", "null", "undefined", "Object", "ArrayBuffer"}

C8_PrimitivesAreInline ==
    [][op'.job = "data.data" =>
        /\ op'.data.cls \in InlineClasses =>
             /\ sent' = <<JSONEv(conns[op'.conn],
                                 IF op'.data.cls = "JsonData"
                                 THEN WrappedData(op'.data) ELSE op'.data)>>
             /\ nextId' = nextId
             /\ storage' = storage
        /\ op'.data.cls \in OpaqueClasses =>
             /\ Len(sent') = 1
             /\ sent'[1].type = "DataReceivedBlob"
             /\ nextId' = nextId + 1
             /\ sent'[1].blobID \notin DOMAIN storage
             /\ MapGet(storage', sent'[1].blobID) =
                    (IF op'.data.cls = "BlobData"
                     THEN WrappedData(op'.data) ELSE op'.data)]_vars

----------------------------------------------------------------------------
\* C9 (as stated): for every CallPeer whose streamID is not registered as a
\* media stream, the events emitted are exactly one StreamDoesNotExist
\* {streamID}, no call is initiated and no media-connection handle is
\* generated.
C9_UnregisteredStreamReported ==
    [][(HandledCmd(op', CallPeerTag)
          /\ ~RegisteredAs(storage, op'.msg.streamID, "MediaStream")) =>
            /\ sent' = <<[type |-> "StreamDoesNotExist", streamID |-> op'.msg.streamID]>>
            /\ requests' = <<>>
            /\ nextId' = nextId
            /\ calls' = calls]_vars

\* C9 (amended): for every CallPeer whose local is a registered peer session
\* and whose streamID is not registered as a media stream, the events
\* emitted are exactly one StreamDoesNotExist{streamID}, no call is
\* initiated and no media-connection handle is generated.  (With local not
\* registered as a peer session the command ends at that lookup, with
\* exactly one PeerDoesNotExist{local}.)
C9_UnregisteredStreamOfRegisteredPeer ==
    [][HandledCmd(op', CallPeerTag) =>
        /\ (RegisteredAs(storage, op'.msg.local, "Peer")
              /\ ~RegisteredAs(storage, op'.msg.streamID, "MediaStream")) =>
                /\ sent' = <<[type |-> "StreamDoesNotExist",
                              streamID |-> op'.msg.streamID]>>
                /\ requests' = <<>>
                /\ nextId' = nextId
                /\ calls' = calls
                /\ storage' = storage
        /\ ~RegisteredAs(storage, op'.msg.local, "Peer") =>
                /\ sent' = <<[type |-> "PeerDoesNotExist", peerID |-> op'.msg.local]>>
                /\ requests' = <<>>
                /\ nextId' = nextId
                /\ calls' = calls
                /\ storage' = storage]_vars

\* C9 witness: CallPeer on a registered peer session named, as its stream, a
\* handle registered to a media connection, and StreamDoesNotExist was sent.
C9_Witness ==
    /\ HandledCmd(op, CallPeerTag)
    /\ RegisteredAs(storage, op.msg.local, "Peer")
    /\ RegisteredAs(storage, op.msg.streamID, "MediaConnection")
    /\ sent = <<[type |-> "StreamDoesNotExist", streamID |-> op.msg.streamID]>>
    /\ fault = "StreamDoesNotExist"

----------------------------------------------------------------------------
\* C10: every event the adapter sends has a tag of the documented outbound
\* set (the PeerEvent union); a media connection's close callback emits
\* MediaConnectionClosed and its error callback MediaConnectionError.
C10_DocumentedEventTags ==
    /\ \A i \in DOMAIN sent : sent[i].type \in PeerEventTypes
    /\ op.job = "media.close" =>
          sent = <<MediaEv("MediaConnectionClosed", calls[op.call])>>
    /\ op.job = "media.error" =>
          sent = <<MediaEv("MediaConnectionError", calls[op.call]) @@ [err |-> Err]>>

----------------------------------------------------------------------------
\* C11: AnswerMediaConnection resolves the media connection the same way
\* with and without a streamID: the media-connection lookup comes first and
\* its outcome depends on the registry and mediaConnectionID only (found, or
\* exactly MediaConnectionDoesNotExist{mediaConnectionID} and the command
\* aborted with no effect).  Once found, the two differ only in the stream:
\* with a streamID the stream is looked up (StreamDoesNotExist{streamID} and
\* no answer on failure) and passed to answer; without one the connection
\* is answered with no stream.
C11_AnswerResolvesConnectionAlike ==
    [][HandledCmd(op', AnswerMediaConnectionTag) =>
        LET mc == op'.msg.mediaConnectionID
            st == op'.msg.streamID
        IN  /\ ~RegisteredAs(storage, mc, "MediaConnection") =>
                  /\ sent' = <<[type |-> "MediaConnectionDoesNotExist",
                                mediaConnectionID |-> mc]>>
                  /\ NoSideEffect
            /\ RegisteredAs(storage, mc, "MediaConnection") =>
                  /\ storage' = storage /\ nextId' = nextId /\ calls' = calls
                  /\ IF st = UndefinedId
                     THEN /\ sent' = <<>>
                          /\ requests' = <<[req |-> "answer", call |-> storage[mc].ref,
                                            stream |-> 0]>>
                     ELSE IF RegisteredAs(storage, st, "MediaStream")
                     THEN /\ sent' = <<>>
                          /\ requests' = <<[req |-> "answer", call |-> storage[mc].ref,
                                            stream |-> storage[st].ref]>>
                     ELSE /\ sent' = <<[type |-> "StreamDoesNotExist", streamID |-> st]>>
                          /\ requests' = <<>>]_vars

\* C11 witness: a registered media connection was answered with a registered
\* stream.
C11_Witness ==
    /\ HandledCmd(op, AnswerMediaConnectionTag)
    /\ RegisteredAs(storage, op.msg.mediaConnectionID, "MediaConnection")
    /\ RegisteredAs(storage, op.msg.streamID, "MediaStream")
    /\ requests = <<[req |-> "answer", call |-> storage[op.msg.mediaConnectionID].ref,
                     stream |-> storage[op.msg.streamID].ref]>>

----------------------------------------------------------------------------
\* C12: a disconnected callback or an error callback (of a peer session, a
\* data channel or a media connection) only emits its one event: the
\* registry is left as it was, no handle is generated and no request is
\* made to the capability.  Consequently a session that was opened and then
\* disconnected is still found by ReconnectToServer{peerID}: the command
\* asks the capability to reconnect that session and emits nothing.
InformationalJobs == {"peer.disconnected", "peer.error", "data.error", "media.error"}

C12_DisconnectedAndErrorOnlyEmit ==
    [][/\ op'.job \in InformationalJobs =>
            /\ Len(sent') = 1
            /\ storage' = storage
            /\ nextId' = nextId
            /\ requests' = <<>>
            /\ fault' = NoFault
       /\ op'.job = "peer.disconnected" => sent'[1].type = "PeerDisconnected"
       /\ op'.job = "peer.error" => sent'[1].type = "PeerError"
       /\ op'.job = "data.error" => sent'[1].type = "DataError"
       /\ (HandledCmd(op', ReconnectToServerTag)
             /\ RegisteredAs(storage, op'.msg.peerID, "Peer")) =>
            /\ sent' = <<>>
            /\ requests' = <<[req |-> "reconnect", peer |-> storage[op'.msg.peerID].ref]>>
            /\ storage' = storage]_vars

\* C12 witness: a session opened under "abc" and then disconnected was found
\* by ReconnectToServer{peerID: "abc"} and asked to reconnect.
C12_Witness ==
    /\ HandledCmd(op, ReconnectToServerTag)
    /\ op.msg.peerID = "abc"
    /\ RegisteredAs(storage, "abc", "Peer")
    /\ requests = <<[req |-> "reconnect", peer |-> storage["abc"].ref]>>
    /\ peers[storage["abc"].ref].peerID = "abc"
    /\ peers[storage["abc"].ref].state = "connecting"
    /\ sent = <<>>

----------------------------------------------------------------------------
\* C13: every PeerError, PeerClosed and PeerDisconnected event emitted
\* carries a defined peerID, in every state the callback fires from (an
\* error or close of a session still connecting included), and every event
\* of a remotely initiated data channel or media connection carries as
\* local the identifier a session was opened under.
DefinedId(id) == id \notin {UndefinedId, NullId}

ChannelJobs == {"data.open", "data.close", "data.error", "data.data"}
MediaJobs == {"media.stream", "media.close", "media.error"}

C13_EventsIdentifyTheirSession ==
    /\ \A i \in DOMAIN sent :
          sent[i].type \in {"PeerError", "PeerClosed", "PeerDisconnected"}
              => DefinedId(sent[i].peerID)
    /\ (op.job \in ChannelJobs /\ conns[op.conn].initiator = "remote") =>
          \A i \in DOMAIN sent :
              /\ DefinedId(sent[i].local)
              /\ \E p \in DOMAIN peers : peers[p].peerID = sent[i].local
    /\ (op.job \in MediaJobs /\ calls[op.call].initiator = "remote") =>
          \A i \in DOMAIN sent :
              /\ DefinedId(sent[i].local)
              /\ \E p \in DOMAIN peers : peers[p].peerID = sent[i].local

----------------------------------------------------------------------------
----------------------------------------------------------------------------
----------------------------------------------------------------------------
----------------------------------------------------------------------------
\* C17: handles are unique within the registry at every point in time: no
\* registration replaces an entry that currently holds a different
\* resource, and no deletion removes an entry that belongs to a different
\* resource than the one being closed.  (An entry of a peer session counts
\* while that session is live, so that a leftover of a closed session is
\* not counted as a different resource.)
Holds(map, k) ==
    /\ k \in DOMAIN map
    /\ map[k].cls = "Peer" => Live(map[k].ref)

C17_HandlesUnique ==
    [][\A k \in DOMAIN storage :
          Holds(storage, k) =>
              /\ k \in DOMAIN storage' => storage'[k] = storage[k]
              /\ k \notin DOMAIN storage' =>
                    /\ op'.job = "peer.close"
                    /\ storage[k] = PeerObj(op'.peer)]_vars

----------------------------------------------------------------------------
\* C18: registration precedes announcement: whenever PeerOpened{peerID},
\* DataOpened{dataID}, DataReceivedBlob{blobID} or MediaStreamReceived
\* {streamID} is emitted, the announced handle is present in the registry
\* and maps to the announced resource, so that a lookup of the handle made
\* in reaction to the event succeeds.
C18_RegisteredWhenAnnounced ==
    \A i \in DOMAIN sent :
        /\ sent[i].type = "PeerOpened" =>
              /\ MapGet(storage, sent[i].peerID) = PeerObj(op.peer)
              /\ getPeer(sent[i].peerID).found
        /\ sent[i].type = "DataOpened" =>
              MapGet(storage, sent[i].dataID) = ConnObj(op.conn)
        /\ sent[i].type = "DataReceivedBlob" =>
              MapGet(storage, sent[i].blobID) =
                  (IF InstanceOf(op.data, "BlobData") THEN WrappedData(op.data)
                   ELSE op.data)
        /\ sent[i].type = "MediaStreamReceived" =>
              /\ MapGet(storage, sent[i].streamID) = StreamObj(streams)
              /\ getStream(sent[i].streamID).found

\* C18 witness: a media connection's stream callback announced a stream
\* handle, and the handle is registered to a media stream.
C18_Witness ==
    /\ op.job = "media.stream"
    /\ Len(sent) = 1
    /\ sent[1].type = "MediaStreamReceived"
    /\ RegisteredAs(storage, sent[1].streamID, "MediaStream")

----------------------------------------------------------------------------
\* C19: a delivered command whose tag is not one of the five command tags
\* has no effect on the adapter: it emits no event, adds, changes and
\* removes no registry entry, generates no handle and makes no request to
\* the capability; the tags that name another method of the adapter
\* (HandleMediaMsg, HandleDataMsg, SubscribeToPeerEvents, HandleMsg) included.
C19_UnknownTagHasNoEffect ==
    [][(op'.job = "handleMsg" /\ op'.msg.type \notin CommandTags) =>
          /\ sent' = <<>>
          /\ NoSideEffect]_vars

====
